---- MODULE Spec2Model ----
(***************************************************************************)
(* VibeCoding.SOP: the Plan Requester (services/geminiService.ts), the     *)
(* planner view (components/PlannerTool.tsx) and the application shell     *)
(* (App.tsx) as one state machine.                                         *)
(*                                                                         *)
(* Text is modelled as sequences: a task description is a sequence of      *)
(* characters, a response body is a sequence of JSON tokens which          *)
(* JSONParse turns into a value by recursive descent, as JSON.parse does.  *)
(***************************************************************************)
EXTENDS Integers, Sequences, FiniteSets, TLC

(* ------------------------------ bounds --------------------------------- *)

\* most steps in a payload returned by the generation service
MaxSteps == 2
\* most invocations of generateExecutionPlan in one run
MaxCalls == 2

(* ------------------------------ strings -------------------------------- *)

\* the texts typed into the textarea: empty, blank, plain, and padded with
\* blanks; a text is a sequence of characters
Strings == {<<>>, <<" ">>, <<"a">>, <<" ", "a", " ">>}

IsSpace(c) == c = " "

RECURSIVE TrimStart(_)
TrimStart(s) ==
  IF Len(s) = 0 THEN s
  ELSE IF IsSpace(Head(s)) THEN TrimStart(Tail(s)) ELSE s

RECURSIVE TrimEnd(_)
TrimEnd(s) ==
  IF Len(s) = 0 THEN s
  ELSE IF IsSpace(s[Len(s)]) THEN TrimEnd(SubSeq(s, 1, Len(s) - 1)) ELSE s

\* String.prototype.trim
Trim(s) == TrimEnd(TrimStart(s))

\* the task descriptions a caller passes: not blank
Tasks == {s \in Strings : Trim(s) # <<>>}

(* ---------------------------- JSON values ------------------------------ *)

JNull == [k |-> "null"]
JBool(b) == [k |-> "bool", b |-> b]
JNum(n) == [k |-> "num", n |-> n]
JStr(s) == [k |-> "str", s |-> s]
JArr(items) == [k |-> "arr", items |-> items]
JObj(fields) == [k |-> "obj", fields |-> fields]

\* the value of a promise that has not settled yet
Pending == [k |-> "pending"]

\* JavaScript truthiness of a parsed value, as tested by `if (result)`
Truthy(v) ==
  CASE v.k = "null" -> FALSE
    [] v.k = "pending" -> FALSE
    [] v.k = "bool" -> v.b
    [] v.k = "num" -> v.n # 0
    [] v.k = "str" -> v.s # ""
    [] OTHER -> TRUE

(* ---------------------------- JSON text -------------------------------- *)

Punct(c) == [t |-> "punct", c |-> c]
StrTok(s) == [t |-> "str", c |-> s]
Lit(c) == [t |-> "lit", c |-> c]
Ws == [t |-> "ws", c |-> " "]
Bad == [t |-> "bad", c |-> "#"]
Eof == [t |-> "eof", c |-> ""]

Tok(text, i) == IF i >= 1 /\ i <= Len(text) THEN text[i] ELSE Eof

\* the tokens of a text with the insignificant whitespace dropped
SkipWs(text) == SelectSeq(text, LAMBDA x : x.t # "ws")

ParseFail == [ok |-> FALSE, val |-> JNull, next |-> 0]
ParseOk(v, n) == [ok |-> TRUE, val |-> v, next |-> n]

LitValue(c) ==
  CASE c = "null" -> JNull
    [] c = "true" -> JBool(TRUE)
    [] c = "false" -> JBool(FALSE)
    [] c = "0" -> JNum(0)
    [] OTHER -> JNum(1)

RECURSIVE ParseValue(_, _)
RECURSIVE ParseElements(_, _, _)
RECURSIVE ParseElementsReversed(_, _, _)
RECURSIVE ParseMembers(_, _, _)

ParseValue(text, i) ==
  LET tk == Tok(text, i) IN
  CASE tk.t = "lit" -> ParseOk(LitValue(tk.c), i + 1)
    [] tk.t = "str" -> ParseOk(JStr(tk.c), i + 1)
    [] tk = Punct("[") ->
         IF Tok(text, i + 1) = Punct("]") THEN ParseOk(JArr(<<>>), i + 2)
         ELSE ParseElements(text, i + 1, <<>>)
    [] tk = Punct("{") ->
         IF Tok(text, i + 1) = Punct("}") THEN ParseOk(JObj(<<>>), i + 2)
         ELSE ParseMembers(text, i + 1, <<>>)
    [] OTHER -> ParseFail

\* the elements are collected in reverse
ParseElementsReversed(text, i, acc) ==
  LET r == ParseValue(text, i) IN
  IF ~r.ok THEN ParseFail
  ELSE IF Tok(text, r.next) = Punct(",")
       THEN ParseElementsReversed(text, r.next + 1, <<r.val>> \o acc)
  ELSE IF Tok(text, r.next) = Punct("]")
       THEN ParseOk(JArr(<<r.val>> \o acc), r.next + 1)
  ELSE ParseFail

ParseElements(text, i, acc) ==
  LET r == ParseValue(text, i) IN
  IF ~r.ok THEN ParseFail
  ELSE IF Tok(text, r.next) = Punct(",")
       THEN ParseElements(text, r.next + 1, Append(acc, r.val))
  ELSE IF Tok(text, r.next) = Punct("]")
       THEN ParseOk(JArr(Append(acc, r.val)), r.next + 1)
  ELSE ParseFail

\* a member set twice keeps the later value
ParseMembers(text, i, acc) ==
  LET key == Tok(text, i)
      r == ParseValue(text, i + 2)
  IN
  IF key.t # "str" \/ Tok(text, i + 1) # Punct(":") THEN ParseFail
  ELSE IF ~r.ok THEN ParseFail
  ELSE IF Tok(text, r.next) = Punct(",")
       THEN ParseMembers(text, r.next + 1, (key.c :> r.val) @@ acc)
  ELSE IF Tok(text, r.next) = Punct("}")
       THEN ParseOk(JObj((key.c :> r.val) @@ acc), r.next + 1)
  ELSE ParseFail

\* the value of the text, or a SyntaxError when the text is not exactly one
\* JSON value
ParseText(text) ==
  LET toks == SkipWs(text)
      r == ParseValue(toks, 1)
  IN IF r.ok /\ r.next = Len(toks) + 1
     THEN [threw |-> FALSE, val |-> r.val]
     ELSE [threw |-> TRUE, val |-> JNull]

(* ------------------- the generation service's answers ------------------ *)

Fields == <<"title", "promptStrategy", "risk">>

\* the texts a step of the service's payload carries
StepVals ==
  << [title |-> "t1", promptStrategy |-> "p1", risk |-> "r1"],
     [title |-> "t2", promptStrategy |-> "p2", risk |-> "r2"] >>

\* PlannerResponse of types.ts: an object whose steps is an array of objects
\* with the three text fields
IsStep(v) ==
  /\ v.k = "obj"
  /\ \A i \in 1..Len(Fields) :
       Fields[i] \in DOMAIN v.fields /\ v.fields[Fields[i]].k = "str"

Conforms(v) ==
  /\ v.k = "obj"
  /\ "steps" \in DOMAIN v.fields
  /\ v.fields["steps"].k = "arr"
  /\ \A i \in 1..Len(v.fields["steps"].items) : IsStep(v.fields["steps"].items[i])

RECURSIVE JoinComma(_)
JoinComma(parts) ==
  IF Len(parts) = 0 THEN <<>>
  ELSE IF Len(parts) = 1 THEN parts[1]
  ELSE parts[1] \o <<Punct(",")>> \o JoinComma(Tail(parts))

MemberText(key, valText) == <<StrTok(key), Punct(":")>> \o valText

\* a step object of the payload: step n written with the members in keys
StepText(st) ==
  <<Punct("{")>>
  \o JoinComma([i \in 1..Len(st.keys) |->
        MemberText(st.keys[i], <<StrTok(StepVals[st.n][st.keys[i]])>>)])
  \o <<Punct("}")>>

\* the payload { "steps": [ ... ] } with the given steps in order
PlanText(steps) ==
  <<Punct("{")>>
  \o MemberText("steps",
       <<Punct("[")>> \o JoinComma([i \in 1..Len(steps) |-> StepText(steps[i])])
       \o <<Punct("]")>>)
  \o <<Punct("}")>>

GoodSteps == {[n |-> n, keys |-> Fields] : n \in 1..Len(StepVals)}

\* a step that lacks one of the three required members
BadSteps ==
  {[n |-> 1, keys |-> SelectSeq(Fields, LAMBDA f : f # Fields[drop])] :
      drop \in 1..Len(Fields)}

SeqsUpTo(S, n) == UNION {[1..m -> S] : m \in 0..n}

ConformingPlans == SeqsUpTo(GoodSteps, MaxSteps)

\* payloads in which exactly one step, at any position, is incomplete
ViolatingPlans ==
  {p \in SeqsUpTo({[n |-> 1, keys |-> Fields]} \cup BadSteps, MaxSteps) :
      Cardinality({i \in 1..Len(p) : p[i] \in BadSteps}) = 1}

\* valid JSON that is not a plan at all
OtherJsonTexts ==
  { <<Punct("{"), Punct("}")>>,
    <<Punct("["), Punct("]")>>,
    <<Lit("null")>>, <<Lit("false")>>, <<Lit("true")>>, <<Lit("0")>>,
    <<StrTok("t1")>>, <<StrTok("")>>,
    <<Punct("{")>> \o MemberText("steps", <<Lit("null")>>) \o <<Punct("}")>>,
    <<Punct("{")>> \o MemberText("steps", <<StrTok("t1")>>) \o <<Punct("}")>>,
    <<Punct("{")>> \o MemberText("steps", <<Punct("["), Lit("null"), Punct("]")>>)
       \o <<Punct("}")>> }

SampleText == PlanText(<<[n |-> 1, keys |-> Fields]>>)

\* text that is not JSON: cut-off payloads, stray tokens, blank text
NonJsonTexts ==
  {SubSeq(SampleText, 1, m) : m \in 1..(Len(SampleText) - 1)}
  \cup { <<Bad>>, <<Ws>>,
         SampleText \o <<Punct("}")>>,
         SampleText \o SampleText,
         <<Punct("["), Lit("null"), Punct(","), Punct("]")>>,
         <<Punct("{"), StrTok("steps"), Punct("}")>>,
         <<Punct("{"), Lit("0"), Punct(":"), Lit("0"), Punct("}")>> }

ResponseTexts ==
  {PlanText(p) : p \in ConformingPlans}
  \cup {<<Ws>> \o SampleText \o <<Ws>>}
  \cup {PlanText(p) : p \in ViolatingPlans}
  \cup OtherJsonTexts
  \cup NonJsonTexts
  \cup {<<>>}

\* the parses of the texts the service can answer with, computed once
ParseTable == [x \in ResponseTexts |-> ParseText(x)]

\* JSON.parse
JSONParse(text) ==
  IF text \in DOMAIN ParseTable THEN ParseTable[text] ELSE ParseText(text)

\* how the awaited generateContent call can settle: rejected (transport
\* fault), or fulfilled with a response whose text is absent or present
Fault == [kind |-> "fault", hasText |-> FALSE, text |-> <<>>]
NoText == [kind |-> "body", hasText |-> FALSE, text |-> <<>>]
Body(text) == [kind |-> "body", hasText |-> TRUE, text |-> text]
NoResponse == [kind |-> "none", hasText |-> FALSE, text |-> <<>>]

Responses == {Fault, NoText} \cup {Body(x) : x \in ResponseTexts}

(* ------------------------------- state --------------------------------- *)

VARIABLES
  apiKey,       \* geminiService.ts: the module-level credential
  calls,        \* invocations of generateExecutionPlan that have not been consumed
  nInvoked,     \* invocations of generateExecutionPlan so far
  netCalls,     \* calls of ai.models.generateContent so far
  activePhase,  \* App: useState<PhaseId>
  lang,         \* App: useState<'en' | 'zh'>
  input,        \* PlannerTool: useState('')
  plan,         \* PlannerTool: useState<PlannerResponse | null>
  loading,      \* PlannerTool: useState(false)
  error,        \* PlannerTool: useState<string | null>
  crashed       \* a render has thrown and React has removed the tree

vars == <<apiKey, calls, nInvoked, netCalls, activePhase, lang, input, plan,
          loading, error, crashed>>

reqVars == <<apiKey, calls, nInvoked, netCalls>>
appVars == <<activePhase, lang>>
toolVars == <<input, plan, loading, error>>

(* --------------------------- Plan Requester ---------------------------- *)

Langs == {"en", "zh"}

\* what process.env.API_KEY can hold when the module is loaded
EnvValues == {"undefined", "", "key"}

\* const apiKey = process.env.API_KEY || ''
ApiKeyOf(env) == IF env = "undefined" \/ env = "" THEN "" ELSE env

\* the language argument is ignored
LangInstructionEnglish(lg) == "Output in English."

LangInstruction(lg) ==
  IF lg = "zh"
  THEN "OUTPUT MUST BE IN CHINESE (Simplified). Translate titles, strategies, and risks to Chinese."
  ELSE "Output in English."

NoRequest == [model |-> "", task |-> <<>>, directive |-> ""]

\* the argument of ai.models.generateContent
Request(task, lg) ==
  [model |-> "gemini-2.5-flash", task |-> task, directive |-> LangInstruction(lg)]

MissingKeyLog == "API Key is missing"
ErrorLog == "Error generating plan:"

\* generateExecutionPlan up to its first await: without a credential it logs
\* and returns null, otherwise it issues the one generateContent call
GenStartNoGuard(owner, task, lg, key) ==
  [owner |-> owner, task |-> task, lang |-> lg, pc |-> "awaiting",
   req |-> Request(task, lg), net |-> 1, resp |-> NoResponse,
   ret |-> Pending, threw |-> FALSE, logs |-> <<>>]

GenStart(owner, task, lg, key) ==
  IF key = ""
  THEN [owner |-> owner, task |-> task, lang |-> lg, pc |-> "resolved",
        req |-> NoRequest, net |-> 0, resp |-> NoResponse,
        ret |-> JNull, threw |-> FALSE, logs |-> <<MissingKeyLog>>]
  ELSE [owner |-> owner, task |-> task, lang |-> lg, pc |-> "awaiting",
        req |-> Request(task, lg), net |-> 1, resp |-> NoResponse,
        ret |-> Pending, threw |-> FALSE, logs |-> <<>>]

\* the catch block: log the error and return null
Caught(call, r) ==
  [call EXCEPT !.pc = "resolved", !.resp = r, !.ret = JNull,
               !.logs = Append(@, ErrorLog)]

\* the promise of generateExecutionPlan rejects
Rejected(call, r) ==
  [call EXCEPT !.pc = "resolved", !.resp = r, !.threw = TRUE]

Returned(call, r, v) ==
  [call EXCEPT !.pc = "resolved", !.resp = r, !.ret = v]

\* a SyntaxError of JSON.parse is not caught
GenSettleParseEscapes(call, r) ==
  IF r.kind = "fault" THEN Caught(call, r)
  ELSE IF ~r.hasText \/ r.text = <<>> THEN Returned(call, r, JNull)
  ELSE LET parsed == JSONParse(r.text) IN
       IF parsed.threw THEN Rejected(call, r)
       ELSE Returned(call, r, parsed.val)

\* the await is outside the try block
GenSettleFaultEscapes(call, r) ==
  IF r.kind = "fault" THEN Rejected(call, r)
  ELSE IF ~r.hasText \/ r.text = <<>> THEN Returned(call, r, JNull)
  ELSE LET parsed == JSONParse(r.text) IN
       IF parsed.threw THEN Caught(call, r)
       ELSE Returned(call, r, parsed.val)

\* a failed call is issued once more
GenSettleRetry(call, r) ==
  IF r.kind = "fault" /\ call.net < 2 THEN [call EXCEPT !.net = @ + 1]
  ELSE IF r.kind = "fault" THEN Caught(call, r)
  ELSE IF ~r.hasText \/ r.text = <<>> THEN Returned(call, r, JNull)
  ELSE LET parsed == JSONParse(r.text) IN
       IF parsed.threw THEN Caught(call, r)
       ELSE Returned(call, r, parsed.val)

\* an empty body is answered with a plan without steps
GenSettleEmptyPlan(call, r) ==
  IF r.kind = "fault" THEN Caught(call, r)
  ELSE IF ~r.hasText \/ r.text = <<>>
       THEN Returned(call, r, JObj("steps" :> JArr(<<>>)))
  ELSE LET parsed == JSONParse(r.text) IN
       IF parsed.threw THEN Caught(call, r)
       ELSE Returned(call, r, parsed.val)

\* a module-level busy flag: an answer that arrives while another invocation
\* is waiting is dropped
GenSettleBusy(call, r) ==
  IF r.kind = "fault" THEN Caught(call, r)
  ELSE IF ~r.hasText \/ r.text = <<>> THEN Returned(call, r, JNull)
  ELSE IF Cardinality({d \in DOMAIN calls : calls[d].pc = "awaiting"}) > 1
       THEN Returned(call, r, JNull)
  ELSE LET parsed == JSONParse(r.text) IN
       IF parsed.threw THEN Caught(call, r)
       ELSE Returned(call, r, parsed.val)

\* generateExecutionPlan from the settling of the awaited call to its return
GenSettle(call, r) ==
  IF r.kind = "fault" THEN Caught(call, r)
  ELSE IF ~r.hasText \/ r.text = <<>> THEN Returned(call, r, JNull)
  ELSE LET parsed == JSONParse(r.text) IN
       IF parsed.threw THEN Caught(call, r)
       ELSE Returned(call, r, parsed.val)

Awaiting == {c \in DOMAIN calls : calls[c].pc = "awaiting"}
Resolved == {c \in DOMAIN calls : calls[c].pc = "resolved"}

\* a settled promise whose continuation has not run yet: it runs before any
\* other event is handled
NoMicrotask == Resolved = {}

Without(c) == [d \in DOMAIN calls \ {c} |-> calls[d]]

\* a caller other than the planner view invokes generateExecutionPlan
Invoke(task, lg) ==
  /\ NoMicrotask
  /\ nInvoked < MaxCalls
  /\ LET call == GenStart("caller", task, lg, apiKey) IN
       /\ calls' = calls @@ ((nInvoked + 1) :> call)
       /\ netCalls' = netCalls + call.net
  /\ nInvoked' = nInvoked + 1
  /\ UNCHANGED <<apiKey, appVars, toolVars, crashed>>

\* the generation service answers, or the transport fails, and
\* generateExecutionPlan runs to its return
ServiceRespond(c, r) ==
  /\ NoMicrotask
  /\ c \in Awaiting
  /\ calls[c].owner = "caller"
  /\ LET call == GenSettle(calls[c], r) IN
       /\ calls' = [calls EXCEPT ![c] = call]
       /\ netCalls' = netCalls + (call.net - calls[c].net)
  /\ UNCHANGED <<apiKey, nInvoked, appVars, toolVars, crashed>>

\* the caller's await of the returned promise resumes
CallerResume(c) ==
  /\ c \in Resolved
  /\ calls[c].owner = "caller"
  /\ calls' = Without(c)
  /\ UNCHANGED <<apiKey, nInvoked, netCalls, appVars, toolVars, crashed>>

(* ------------------------- App and PlannerTool ------------------------- *)

PhaseIds ==
  <<"manifesto", "decomposition", "context", "iteration", "review", "closing",
    "toolkit">>

\* the ids of the phases of the English catalog, in order
PhasesEn ==
  <<"manifesto", "decomposition", "context", "iteration", "review", "closing",
    "toolkit">>

\* a catalog in which one phase is missing
PhasesZhShort ==
  <<"manifesto", "decomposition", "context", "iteration", "review", "toolkit">>

\* the ids of the phases of the Chinese catalog, in order
PhasesZh ==
  <<"manifesto", "decomposition", "context", "iteration", "review", "closing",
    "toolkit">>

\* const phases = lang === 'en' ? phasesEn : phasesZh
Phases == IF lang = "en" THEN PhasesEn ELSE PhasesZh

\* phases.find(p => p.id === activePhase): the positions that match
CurrentPhaseData == {i \in 1..Len(Phases) : Phases[i] = activePhase}

Null == "<null>"

\* t.error of PlannerTool
ErrorText(lg) ==
  IF lg = "en" THEN "Generation failed. Please check your API Key or try again."
  ELSE "zh: generation failed, check the API Key or retry"

\* <PlannerTool lang={lang} /> is rendered only for the toolkit phase
Mounted == activePhase = "toolkit"

Init ==
  /\ apiKey \in {ApiKeyOf(e) : e \in EnvValues}
  /\ calls = <<>>
  /\ nInvoked = 0
  /\ netCalls = 0
  /\ activePhase = "manifesto"
  /\ lang = "en"
  /\ input = <<>>
  /\ plan = JNull
  /\ loading = FALSE
  /\ error = Null
  /\ crashed = FALSE

\* the button's disabled attribute: disabled={loading || !input}
SubmitDisabledNoLoading == input = <<>>

SubmitDisabled == loading \/ input = <<>>

\* the component's state is what React shows; a settled promise is resumed
\* before the next event
Interactive == ~crashed /\ NoMicrotask

\* onChange of the textarea
SetInput(s) ==
  /\ Interactive
  /\ Mounted
  /\ s # input
  /\ input' = s
  /\ UNCHANGED <<reqVars, appVars, plan, loading, error, crashed>>

\* the button's label taken for the language
ToggledToLabel(l) == IF l = "en" THEN "CN" ELSE "EN"

\* the updater of setLang: l => l === 'en' ? 'zh' : 'en'
Toggled(l) == IF l = "en" THEN "zh" ELSE "en"

\* onClick of the language button: setLang(l => l === 'en' ? 'zh' : 'en')
ToggleLang ==
  /\ Interactive
  /\ lang' = Toggled(lang)
  /\ UNCHANGED <<reqVars, activePhase, toolVars, crashed>>

\* the requests of a PlannerTool that is unmounted: their setState calls
\* no longer reach a component
Orphaned ==
  [c \in DOMAIN calls |->
     IF calls[c].owner = "shell" THEN [calls[c] EXCEPT !.owner = "unmounted"]
     ELSE calls[c]]

\* handlePhaseChange(id); leaving the toolkit phase unmounts PlannerTool, and
\* entering it mounts a new one with the initial useState values
HandlePhaseChange(id) ==
  /\ Interactive
  /\ id # activePhase
  /\ activePhase' = id
  /\ IF Mounted
     THEN /\ calls' = Orphaned
          /\ input' = <<>>
          /\ plan' = JNull
          /\ loading' = FALSE
          /\ error' = Null
     ELSE UNCHANGED <<calls, toolVars>>
  /\ UNCHANGED <<apiKey, nInvoked, netCalls, lang, crashed>>

\* handlePlan from setLoading(true) to setPlan(null)
HandlePlanBeginKeepPlan == [loading |-> TRUE, error |-> Null, plan |-> plan]

HandlePlanBegin == [loading |-> TRUE, error |-> Null, plan |-> JNull]

\* the guard of handlePlan: if (!input.trim()) return
HandlePlanRejectsNoTrim(s) == s = <<>>

HandlePlanRejects(s) == Trim(s) = <<>>

\* onClick of the button: handlePlan up to its await
Submit ==
  /\ Interactive
  /\ Mounted
  /\ ~SubmitDisabled
  /\ IF HandlePlanRejects(input)
     THEN UNCHANGED vars
     ELSE /\ nInvoked < MaxCalls
          /\ loading' = HandlePlanBegin.loading
          /\ error' = HandlePlanBegin.error
          /\ plan' = HandlePlanBegin.plan
          /\ LET call == GenStart("shell", input, lang, apiKey) IN
               /\ calls' = calls @@ ((nInvoked + 1) :> call)
               /\ netCalls' = netCalls + call.net
          /\ nInvoked' = nInvoked + 1
          /\ UNCHANGED <<apiKey, appVars, input, crashed>>

\* the render of a non-null plan: plan.steps.map(...) and the step's texts
RenderThrows(p) ==
  /\ Truthy(p)
  /\ ~ /\ p.k = "obj"
       /\ "steps" \in DOMAIN p.fields
       /\ p.fields["steps"].k = "arr"
       /\ \A i \in 1..Len(p.fields["steps"].items) :
            LET it == p.fields["steps"].items[i] IN
              /\ it.k # "null"
              /\ it.k = "obj" =>
                   \A f \in DOMAIN it.fields : it.fields[f].k # "obj"

\* handlePlan without its finally block: a failure leaves loading set
HandlePlanSettleNoFinally(call) ==
  IF call.threw THEN [loading |-> loading, error |-> ErrorText(call.lang), plan |-> plan]
  ELSE IF Truthy(call.ret) THEN [loading |-> FALSE, error |-> error, plan |-> call.ret]
  ELSE [loading |-> loading, error |-> ErrorText(call.lang), plan |-> plan]

\* handlePlan after its await: the result, the catch and the finally
HandlePlanSettle(call) ==
  IF call.threw THEN [loading |-> FALSE, error |-> ErrorText(call.lang), plan |-> plan]
  ELSE IF Truthy(call.ret) THEN [loading |-> FALSE, error |-> error, plan |-> call.ret]
  ELSE [loading |-> FALSE, error |-> ErrorText(call.lang), plan |-> plan]

\* handlePlan resumes with the settled promise c of generateExecutionPlan;
\* the setState calls of an unmounted component are ignored
Resume(c, call) ==
  /\ calls' = Without(c)
  /\ IF call.owner = "shell" /\ ~crashed
     THEN LET new == HandlePlanSettle(call) IN
            /\ loading' = new.loading
            /\ error' = new.error
            /\ plan' = new.plan
            /\ crashed' = RenderThrows(new.plan)
            /\ UNCHANGED input
     ELSE UNCHANGED <<toolVars, crashed>>

\* the await in handlePlan resumes after generateExecutionPlan has returned
\* without waiting (no credential)
HandlePlanResume(c) ==
  /\ c \in Resolved
  /\ calls[c].owner # "caller"
  /\ Resume(c, calls[c])
  /\ UNCHANGED <<apiKey, nInvoked, netCalls, appVars>>

\* the generation service answers, or the transport fails:
\* generateExecutionPlan runs to its return and handlePlan resumes with the
\* result before any other event is handled
PlanSettled(c, r) ==
  /\ NoMicrotask
  /\ c \in Awaiting
  /\ calls[c].owner # "caller"
  /\ LET call == GenSettle(calls[c], r) IN
       IF call.pc = "resolved"
       THEN /\ Resume(c, call)
            /\ netCalls' = netCalls + (call.net - calls[c].net)
       ELSE /\ calls' = [calls EXCEPT ![c] = call]
            /\ netCalls' = netCalls + (call.net - calls[c].net)
            /\ UNCHANGED <<toolVars, crashed>>
  /\ UNCHANGED <<apiKey, nInvoked, appVars>>

Next ==
  \/ \E s \in Strings : SetInput(s)
  \/ ToggleLang
  \/ \E i \in 1..Len(Phases) : HandlePhaseChange(Phases[i])
  \/ Submit
  \/ \E c \in DOMAIN calls, r \in Responses : PlanSettled(c, r)
  \/ \E c \in DOMAIN calls : HandlePlanResume(c)

\* the application: the Plan Requester is invoked by the planner view only
Spec == Init /\ [][Next]_vars

ReqNext ==
  \/ \E task \in Tasks, lg \in Langs : Invoke(task, lg)
  \/ \E c \in DOMAIN calls, r \in Responses : ServiceRespond(c, r)
  \/ \E c \in DOMAIN calls : CallerResume(c)

\* the Plan Requester under callers that invoke it directly
ReqSpec == Init /\ [][ReqNext]_vars

(* ------------------------------ properties ----------------------------- *)

HasKey == apiKey # ""

ShellCalls == {c \in DOMAIN calls : calls[c].owner = "shell"}

\* the steps of the payload written from p, as values
ExpectedStep(st) == JObj([f \in {"title", "promptStrategy", "risk"} |-> JStr(StepVals[st.n][f])])

\* C1: without a credential every invocation has returned null (it never
\* waits, never rejects) and no call of the generation service has been made
C1_NoKeyNoNetwork ==
  ~HasKey =>
    /\ netCalls = 0
    /\ \A c \in DOMAIN calls :
         /\ calls[c].pc = "resolved"
         /\ calls[c].ret = JNull
         /\ ~calls[c].threw
         /\ calls[c].net = 0

C1_Witness ==
  /\ ~HasKey
  /\ nInvoked >= 2
  /\ \E c \in Resolved :
       Trim(calls[c].task) # <<>> /\ calls[c].lang = "zh" /\ calls[c].ret = JNull

\* C2: with a credential, a payload that conforms to the schema with N steps
\* is returned as a plan of N steps, in the payload's order, each with the
\* payload's title, promptStrategy and risk
C2_RoundTrip ==
  \A c \in Resolved : \A p \in ConformingPlans :
    (HasKey /\ calls[c].resp.hasText
       /\ SkipWs(calls[c].resp.text) = PlanText(p)) =>
      /\ ~calls[c].threw
      /\ calls[c].ret.k = "obj"
      /\ DOMAIN calls[c].ret.fields = {"steps"}
      /\ calls[c].ret.fields["steps"].k = "arr"
      /\ Len(calls[c].ret.fields["steps"].items) = Len(p)
      /\ \A i \in 1..Len(p) :
           calls[c].ret.fields["steps"].items[i] = ExpectedStep(p[i])

C2_Witness ==
  \E c \in Resolved : \E p \in ConformingPlans :
    /\ HasKey
    /\ Len(p) = 2
    /\ p[1].n # p[2].n
    /\ calls[c].resp = Body(PlanText(p))
    /\ Len(calls[c].ret.fields["steps"].items) = 2

\* C3: with a credential, valid JSON that is not a plan of complete steps
\* gives null
C3_SchemaViolationGivesNull ==
  \A c \in Resolved :
    (HasKey /\ calls[c].resp.hasText
       /\ ~JSONParse(calls[c].resp.text).threw
       /\ ~Conforms(JSONParse(calls[c].resp.text).val)) =>
      calls[c].ret = JNull

\* C4: with a credential, a response text that is not JSON gives null and
\* the returned promise does not reject
C4_NonJsonGivesNull ==
  \A c \in Resolved :
    (HasKey /\ calls[c].resp.hasText /\ calls[c].resp.text \in NonJsonTexts) =>
      calls[c].ret = JNull /\ ~calls[c].threw

C4_Witness ==
  \E c \in Resolved :
    /\ HasKey
    /\ calls[c].resp.hasText
    /\ calls[c].resp.text \in NonJsonTexts
    /\ Len(calls[c].resp.text) > 1
    /\ calls[c].ret = JNull

\* C5: with a credential, a transport fault of the outbound call gives null
\* and the returned promise does not reject
C5_FaultGivesNull ==
  \A c \in Resolved :
    (HasKey /\ calls[c].resp = Fault) => calls[c].ret = JNull /\ ~calls[c].threw

C5_Witness ==
  \E c \in Resolved : HasKey /\ calls[c].resp = Fault /\ calls[c].ret = JNull

\* C6: with a credential, every invocation has issued exactly one call of the
\* generation service, before and after the call settles, whatever the outcome
C6_OneNetworkCall ==
  HasKey =>
    /\ netCalls = nInvoked
    /\ \A c \in DOMAIN calls : calls[c].net = 1

C6_Witness ==
  /\ HasKey
  /\ nInvoked >= 2
  /\ netCalls >= 2
  /\ \E c \in Resolved : calls[c].resp = Fault /\ calls[c].net = 1

\* C7: every invocation that returns null has logged a diagnostic entry, and
\* a transport fault logs exactly one
C7_NullIsLogged ==
  \A c \in Resolved :
    /\ calls[c].ret = JNull => Len(calls[c].logs) >= 1
    /\ calls[c].resp = Fault => Len(calls[c].logs) = 1

\* C8: the mounted PlannerTool has at most one request that has not settled,
\* and while it has one the button is disabled
C8_OneInFlight ==
  /\ Cardinality(ShellCalls) <= 1
  /\ ShellCalls # {} => loading /\ SubmitDisabled

C8_Witness ==
  \E c \in ShellCalls :
    /\ calls[c].pc = "awaiting"
    /\ calls[c].lang # lang
    /\ calls[c].task # input
    /\ input # <<>>
    /\ loading

\* C9: while a request of the mounted PlannerTool is in flight, no plan and
\* no error is displayed
C9_ClearedWhileInFlight ==
  ShellCalls # {} => plan = JNull /\ error = Null

C9_Witness ==
  /\ nInvoked >= 2
  /\ \E c \in ShellCalls : calls[c].pc = "awaiting"
  /\ \A c \in DOMAIN calls : calls[c].owner = "shell"
  /\ plan = JNull
  /\ error = Null

\* C10: a displayed error message is the message of the selected language
C10_ErrorInCurrentLanguage ==
  (Mounted /\ ~crashed /\ error # Null) => error = ErrorText(lang)

\* C11: when the call of a request of the mounted PlannerTool completes, the
\* request leaves the in-flight state and the view is settled: it is not
\* loading and displays exactly one of a plan or an error message
C11_SettledWithPlanOrError ==
  [][\A c \in ShellCalls :
       c \notin DOMAIN calls' =>
         /\ ~loading'
         /\ ~crashed'
         /\ (plan' # JNull) # (error' # Null)]_vars

\* C12: with a credential, a response whose text is empty or absent gives
\* null, and the returned promise does not reject
C12_EmptyBodyGivesNull ==
  \A c \in Resolved :
    (HasKey /\ calls[c].resp.kind = "body"
       /\ (~calls[c].resp.hasText \/ Len(calls[c].resp.text) = 0)) =>
      calls[c].ret = JNull /\ ~calls[c].threw

C12_Witness ==
  /\ HasKey
  /\ \E c \in Resolved : calls[c].resp = Body(<<>>) /\ calls[c].ret = JNull

\* C13: every step in which the view invokes generateExecutionPlan starts
\* from a task description that is not blank, and passes it on; a click on
\* a blank description changes nothing
C13_NoBlankRequest ==
  [][nInvoked' # nInvoked =>
       /\ Trim(input) # <<>>
       /\ calls'[nInvoked'].task = input]_vars

\* the button can be clicked on a blank description while a plan is displayed
C13_Witness ==
  /\ Mounted
  /\ Interactive
  /\ ~SubmitDisabled
  /\ Len(input) > 0
  /\ Trim(input) = <<>>
  /\ nInvoked >= 1
  /\ calls = <<>>
  /\ plan # JNull

\* C14: the request of every invocation the view makes carries the
\* directive of the language selected when the button was clicked (Chinese
\* for 'zh', English for 'en') and the task description exactly as typed,
\* and a request that is in flight does not change afterwards
C14_DirectiveOfTriggerLanguage ==
  [][/\ (HasKey /\ nInvoked' # nInvoked) =>
          LET req == calls'[nInvoked'].req IN
            /\ req.task = input
            /\ lang = "zh" =>
                 req.directive = "OUTPUT MUST BE IN CHINESE (Simplified). Translate titles, strategies, and risks to Chinese."
            /\ lang = "en" => req.directive = "Output in English."
     /\ \A c \in DOMAIN calls \cap DOMAIN calls' : calls'[c].req = calls[c].req]_vars

\* a request triggered in Chinese with a padded description is in flight and
\* the language has been toggled since
C14_Witness ==
  \E c \in ShellCalls :
    /\ calls[c].pc = "awaiting"
    /\ calls[c].req.directive = LangInstruction("zh")
    /\ calls[c].req.task = <<" ", "a", " ">>
    /\ lang = "en"

\* C15: whenever an event can be handled, every other phase of the
\* navigation can be selected, also while a request is in flight; the
\* selection makes that phase the active one and keeps the language
C15_NavigationEnabled ==
  /\ [](NoMicrotask =>
          \A i \in 1..Len(Phases) :
            Phases[i] # activePhase =>
              ENABLED (HandlePhaseChange(Phases[i]) /\ activePhase' = Phases[i]))
  /\ [][activePhase' # activePhase => lang' = lang]_vars

\* what an invocation returns as a function of the credential and of the
\* answer to its own call alone
ExpectedReturn(key, r) ==
  IF key = "" \/ r.kind # "body" \/ ~r.hasText \/ Len(r.text) = 0 THEN JNull
  ELSE IF ParseText(r.text).threw THEN JNull
  ELSE ParseText(r.text).val

\* C16: when an invocation returns, what it returns is determined by the
\* credential and the answer to its own call, whatever other invocations are
\* in progress or have returned, and the other invocations in progress are
\* left as they were
C16_Reentrant ==
  [][\A c \in DOMAIN calls' :
       (calls'[c].pc = "resolved" /\ c \notin Resolved) =>
         /\ ~calls'[c].threw
         /\ calls'[c].ret = ExpectedReturn(apiKey, calls'[c].resp)
         /\ \A d \in DOMAIN calls \ {c} :
              d \in DOMAIN calls' /\ calls'[d] = calls[d]]_vars

\* an invocation has returned a plan while another one, with another task
\* and language, is still waiting
C16_Witness ==
  \E c \in Resolved : \E d \in Awaiting :
    /\ calls[c].task # calls[d].task
    /\ calls[c].lang # calls[d].lang
    /\ Conforms(calls[c].ret)
    /\ Len(calls[c].ret.fields["steps"].items) > 0

\* C17: whenever the planner view holds a non-null plan, the plan has a
\* steps sequence whose every element has the text fields title,
\* promptStrategy and risk
C17_PlanIsWellShaped == plan # JNull => Conforms(plan)

\* C18: in every state between a submit and a response at most one of
\* loading, plan non-null and error non-null holds
C18_FlagsExclusive ==
  /\ ~(loading /\ plan # JNull)
  /\ ~(loading /\ error # Null)
  /\ ~(plan # JNull /\ error # Null)

\* the second request of the planner view has failed: the error alone is set
C18_Witness ==
  /\ Mounted /\ ~crashed
  /\ nInvoked >= 2 /\ calls = <<>>
  /\ error # Null /\ ~loading /\ plan = JNull

\* C19: the two catalogs hold the same ids, each once and in the same order;
\* in every state the lookup of the active phase in the catalog of the
\* current language finds exactly one phase; the planner view is there
\* exactly when the phase found is the toolkit phase, and when it is not
\* there none of its state is
C19_CatalogsAgree ==
  /\ Len(PhasesEn) = Len(PhasesZh)
  /\ \A i \in 1..Len(PhasesEn) : PhasesEn[i] = PhasesZh[i]
  /\ \A i, j \in 1..Len(PhasesEn) : PhasesEn[i] = PhasesEn[j] => i = j
  /\ \A i, j \in 1..Len(PhasesZh) : PhasesZh[i] = PhasesZh[j] => i = j
  /\ Cardinality(CurrentPhaseData) = 1
  /\ Mounted <=> \E i \in CurrentPhaseData : Phases[i] = "toolkit"
  /\ ~Mounted =>
       /\ ShellCalls = {}
       /\ input = <<>> /\ plan = JNull /\ error = Null /\ ~loading

\* the planner view was used and left, and the active phase is looked up in
\* the Chinese catalog
C19_Witness ==
  /\ lang = "zh" /\ activePhase = "closing"
  /\ nInvoked >= 1
  /\ \E i \in CurrentPhaseData : PhasesZh[i] = "closing"

\* C20: the language is 'en' or 'zh' before and after every step; a step
\* that changes it takes it to the other of the two, so that two toggles
\* restore it, and leaves the active phase and the planner view's input,
\* loading flag, plan and error as they were
C20_ToggleFrame ==
  /\ [](Interactive => ENABLED (ToggleLang /\ lang' # lang))
  /\ [][/\ lang \in {"en", "zh"}
        /\ lang' \in {"en", "zh"}
        /\ lang' # lang =>
             /\ (lang = "en" /\ lang' = "zh") \/ (lang = "zh" /\ lang' = "en")
             /\ activePhase' = activePhase
             /\ input' = input
             /\ loading' = loading
             /\ plan' = plan
             /\ error' = error]_vars

\* the language has been toggled while the planner view shows a plan for the
\* task typed
C20_Witness ==
  /\ lang = "zh" /\ Mounted /\ ~crashed
  /\ input # <<>> /\ plan # JNull /\ ~loading /\ error = Null

====
